---- MODULE Spec2Model ----
(***************************************************************************)
(* Model of index.js: the sequential fetch-then-clone run.                 *)
(*   fetchAllRepos  (paged listing, retry, fatal 403)                      *)
(*   fetchBranches  (branch listing, retry, 403 gives an empty list)       *)
(*   cloneBranch    (existence check, clone, emptiness check, submodules,  *)
(*                   retry with backoff)                                   *)
(*   cloneRepo / cloneRootRepo / the main anonymous function               *)
(* The GitHub API, git and the disk are the environment: every response    *)
(* and every clone outcome is chosen nondeterministically.  Names are      *)
(* sequences of one-character strings so that the string operations of     *)
(* the code (replace, path.join) are computed and not assumed.             *)
(***************************************************************************)
EXTENDS Integers, Sequences, FiniteSets, TLC

\* ---------------------------------------------------------------- bounds
MaxRepos == 2        \* repositories the listing API serves in one run
MaxPerPage == 2      \* items the API puts on one page (per_page, scaled)
MaxBranches == 2     \* branches the branches API reports for a repository

\* ------------------------------------------------------ program constants
maxRetries == 3      \* fetchAllRepos / fetchBranches
retries == 3         \* cloneBranch default parameter

\* ------------------------------------------------------------ environment
\* HTTP statuses of a failed request: rate-limited/forbidden, and not found
\* standing for every other error.
ErrorStatuses == {403, 404}

\* Repository names the API serves, in listing order: "r", "rr", ...
RepoName(i) == [k \in 1..i |-> "r"]

\* Branch names the branches API can report.
BranchNamePool ==
  << <<"m">>, <<"f", "/", "x">>, <<"f", "-", "x">>, <<"f", "/", "x", "/", "y">> >>

BranchNames == {BranchNamePool[i] : i \in DOMAIN BranchNamePool}

\* Lists of distinct branch names, as the branches API returns them: the
\* runs of at most MaxBranches consecutive names of the pool.
BranchLists ==
  {SubSeq(BranchNamePool, w[1], w[2]) :
     w \in {w \in (1..Len(BranchNamePool)) \X (0..Len(BranchNamePool)) :
              w[2] >= w[1] - 1 /\ w[2] - w[1] + 1 <= MaxBranches}}

\* Command lines (process.argv.slice(2)).
ArgLists ==
  {<<>>, <<"user">>, <<"user", "--fetch-branches">>}

\* --------------------------------------------------------------- sequences
RECURSIVE Flatten(_)
Flatten(ss) == IF ss = <<>> THEN <<>> ELSE Head(ss) \o Flatten(Tail(ss))

RECURSIVE SelectOk(_)
\* the data of the successful entries of a request log, in log order
SelectOk(log) ==
  IF log = <<>> THEN <<>>
  ELSE (IF Head(log).status = 200 THEN <<Head(log).data>> ELSE <<>>)
       \o SelectOk(Tail(log))

IsPrefix(p, q) == Len(p) <= Len(q) /\ SubSeq(q, 1, Len(p)) = p

\* ------------------------------------------------------------- filesystem
\* The tree under outputDir: a function from the existing paths (sequences
\* of segments, <<>> is outputDir itself) to what is stored there.
Dir == [kind |-> "dir", entries |-> {}]
Cloned(entries) == [kind |-> "clone", entries |-> entries]
Partial == [kind |-> "partial", entries |-> {}]

EmptyTree == [p \in {} |-> Dir]

existsSync(f, p) == p \in DOMAIN f

Ancestors(p) == {SubSeq(p, 1, n) : n \in 0..(Len(p) - 1)}

\* create p with content c, creating the missing parent directories
WritePath(f, p, c) ==
  [q \in DOMAIN f \cup Ancestors(p) \cup {p} |->
     IF q = p THEN c ELSE IF q \in DOMAIN f THEN f[q] ELSE Dir]

\* fs.mkdirSync(p, {recursive: true})
mkdirSync(f, p) == IF p \in DOMAIN f THEN f ELSE WritePath(f, p, Dir)

\* a removal that removes nothing
rmSyncKeeps(f, p) == f

\* fs.rmSync(p, {recursive: true, force: true})
rmSync(f, p) == [q \in {q \in DOMAIN f : ~IsPrefix(p, q)} |-> f[q]]

\* a directory git regards as empty: nothing stored in it or below it
IsEmptyDir(f, p) ==
  /\ p \in DOMAIN f
  /\ f[p].kind = "dir"
  /\ \A q \in DOMAIN f : IsPrefix(p, q) => q = p

\* Trees a previous run can have left behind.
InitialTrees ==
  { EmptyTree,
    WritePath(EmptyTree, <<RepoName(1)>>, Cloned({".git", "README"})),
    WritePath(EmptyTree, <<RepoName(1), <<"m">>>>, Cloned({".git", "README"})) }

\* ------------------------------------------------------- string functions
\* String.prototype.replace(pattern, by) with a string pattern
replace(s, pat, by) ==
  IF \E i \in DOMAIN s : s[i] = pat
  THEN LET i == CHOOSE i \in DOMAIN s : s[i] = pat /\ \A j \in 1..(i - 1) : s[j] # pat
       IN [k \in DOMAIN s |-> IF k = i THEN by ELSE s[k]]
  ELSE s

RECURSIVE SplitPath(_, _)
\* the segments of a relative path; cur is the segment being read
SplitPath(s, cur) ==
  IF s = <<>> THEN (IF cur = <<>> THEN <<>> ELSE <<cur>>)
  ELSE IF Head(s) = "/"
       THEN (IF cur = <<>> THEN <<>> ELSE <<cur>>) \o SplitPath(Tail(s), <<>>)
       ELSE SplitPath(Tail(s), Append(cur, Head(s)))

\* path.join(base, name)
pathJoin(base, name) == base \o SplitPath(name, <<>>)

\* ------------------------------------------------------------------ state
VARIABLES
  pc,                 \* position of the single thread of control
  args,               \* process.argv.slice(2)
  fs,                 \* the tree under outputDir
  exitCode,           \* -1 while running
  summaryPrinted,     \* "Final Summary:" has been printed
  repos, page, retryCount,                     \* fetchAllRepos / main
  reqLog,             \* requests of the current fetchAllRepos call
  idx, result,
  totalSuccessfulRepos, totalFailedRepos,
  totalSuccessfulBranches, totalFailedBranches,
  branches, brRetryCount,                      \* fetchBranches
  brLog,              \* requests of the current fetchBranches call
  bIdx, successfulBranches, failedBranches,    \* cloneRepo
  branchesListed,     \* fetchBranches has returned to the current cloneRepo
  repoCloneTried,     \* a clone was attempted during the current cloneRepo
  branch, branchPath, attempt, success,        \* cloneBranch
  opLog,              \* git operations and waits of the current cloneBranch / cloneRootRepo
  pathExisted,        \* the target path existed when the call started
  fsAtCall,           \* the tree when the call started
  netUsed,            \* a branch listing or a clone was attempted in the run
  processed,          \* names of the repositories cloneRepo / cloneRootRepo was called for
  sumSuccessfulBranches, sumFailedBranches,    \* sums over the results cloneRepo returned
  repoExisted,        \* the repository directory existed when cloneRepo was called
  slept               \* the last delay of cloneRepo's or main's loop, in ms

mainVars == <<args, exitCode, summaryPrinted, idx, result,
              totalSuccessfulRepos, totalFailedRepos,
              totalSuccessfulBranches, totalFailedBranches>>
farVars == <<repos, page, retryCount, reqLog>>
fbVars == <<branches, brRetryCount, brLog>>
crVars == <<bIdx, successfulBranches, failedBranches, branchesListed, repoCloneTried>>
cbVars == <<branch, branchPath, attempt, success, opLog, pathExisted, fsAtCall>>

histVars == <<processed, sumSuccessfulBranches, sumFailedBranches>>

vars == <<pc, fs, mainVars, farVars, fbVars, crVars, cbVars, netUsed, slept,
          histVars, repoExisted>>

\* args.includes("--fetch-branches")
fetchBranchesOption == \E i \in DOMAIN args : args[i] = "--fetch-branches"

NoResult == [success |-> FALSE]

Init ==
  /\ pc = "main"
  /\ args \in ArgLists
  /\ fs \in InitialTrees
  /\ exitCode = -1
  /\ summaryPrinted = FALSE
  /\ repos = <<>> /\ page = 1 /\ retryCount = 0 /\ reqLog = <<>>
  /\ idx = 1 /\ result = NoResult
  /\ totalSuccessfulRepos = 0 /\ totalFailedRepos = 0
  /\ totalSuccessfulBranches = 0 /\ totalFailedBranches = 0
  /\ branches = <<>> /\ brRetryCount = 0 /\ brLog = <<>>
  /\ bIdx = 1 /\ successfulBranches = 0 /\ failedBranches = 0
  /\ branchesListed = FALSE /\ repoCloneTried = FALSE
  /\ branch = <<>> /\ branchPath = <<>> /\ attempt = 1 /\ success = FALSE
  /\ opLog = <<>> /\ pathExisted = FALSE /\ fsAtCall = EmptyTree
  /\ netUsed = FALSE
  /\ slept = 0
  /\ processed = <<>> /\ sumSuccessfulBranches = 0 /\ sumFailedBranches = 0
  /\ repoExisted = FALSE

\* ------------------------------------------------------------------- main
\* process.exit(code)
Exit(code) == pc' = "exit" /\ exitCode' = code

\* main, lines 245-249: no username
MainNoUsername ==
  /\ pc = "main"
  /\ Len(args) = 0
  /\ Exit(1)
  /\ UNCHANGED <<fs, args, summaryPrinted, idx, result,
                 totalSuccessfulRepos, totalFailedRepos,
                 totalSuccessfulBranches, totalFailedBranches,
                 farVars, fbVars, crVars, cbVars, netUsed, slept>>
  /\ UNCHANGED <<histVars, repoExisted>>

\* main, lines 261-270: create the output directory, call fetchAllRepos.
\* A mkdirSync that throws reaches the catch of line 314.
MainStart ==
  /\ pc = "main"
  /\ Len(args) # 0
  /\ \E mkdirOk \in BOOLEAN :
       IF existsSync(fs, <<>>) \/ mkdirOk
       THEN /\ fs' = mkdirSync(fs, <<>>)
            /\ pc' = "fetchAllRepos"
            /\ UNCHANGED exitCode
       ELSE /\ Exit(1)
            /\ UNCHANGED fs
  /\ repos' = <<>> /\ page' = 1 /\ retryCount' = 0 /\ reqLog' = <<>>
  /\ UNCHANGED <<args, summaryPrinted, idx, result,
                 totalSuccessfulRepos, totalFailedRepos,
                 totalSuccessfulBranches, totalFailedBranches,
                 fbVars, crVars, cbVars, netUsed, slept>>
  /\ UNCHANGED <<histVars, repoExisted>>

\* ---------------------------------------------------------- fetchAllRepos
\* Pages the listing API can answer with once k repositories were served:
\* the next n repositories, each a fork or not.
PageData(k) ==
  UNION {{[i \in 1..n |-> [name |-> RepoName(k + i), fork |-> f[i]]] :
            f \in [1..n -> BOOLEAN]} :
         n \in 0..(IF MaxRepos - k < MaxPerPage THEN MaxRepos - k ELSE MaxPerPage)}

\* line 22: response.data.length === 0
IsLastPage(data) == Len(data) = 0

\* a listing that puts the newest page first
concatFront(rs, data) == data \o rs

\* line 23: repos.concat(response.data)
concat(rs, data) == rs \o data

\* a listing that takes 429 for the rate-limit status
RateLimitedAs429(status) == status = 429

\* line 28: error.response?.status === 403
RateLimited(status) == status = 403

\* a listing that compares the count with one more than the maximum
RetriesExhaustedLate(rc) == rc = maxRetries + 1

\* a listing that gives up one attempt early
RetriesExhaustedEarly(rc) == rc = maxRetries - 1

\* line 39: retryCount === maxRetries
RetriesExhausted(rc) == rc = maxRetries

\* line 44: 1000 * retryCount
LinearBackoff(rc) == 1000 * rc

\* line 48: repos.filter((repo) => !repo.fork); no path of the loop reaches it
filterForks(rs) == SelectSeq(rs, LAMBDA r : ~r.fork)

Request(p, status, data, wait) ==
  [page |-> p, status |-> status, data |-> data, wait |-> wait]

\* lines 18-25: the request succeeds
FetchPageOk ==
  /\ pc = "fetchAllRepos"
  /\ \E data \in PageData(Len(repos)) :
       /\ reqLog' = Append(reqLog, Request(page, 200, data, 0))
       /\ IF IsLastPage(data)
          THEN /\ pc' = "fetchAllReposReturned"
               /\ UNCHANGED <<repos, page, retryCount>>
          ELSE /\ repos' = concat(repos, data)
               /\ page' = page + 1
               /\ retryCount' = 0
               /\ UNCHANGED pc
  /\ UNCHANGED <<fs, mainVars, fbVars, crVars, cbVars, netUsed, slept>>
  /\ UNCHANGED <<histVars, repoExisted>>

\* lines 26-45: the request fails
FetchPageFail ==
  /\ pc = "fetchAllRepos"
  /\ \E status \in ErrorStatuses :
       LET rc == retryCount + 1 IN
       IF RateLimited(status)
       THEN /\ Exit(1)
            /\ retryCount' = rc
            /\ reqLog' = Append(reqLog, Request(page, status, <<>>, 0))
       ELSE IF RetriesExhausted(rc)
       THEN /\ pc' = "fetchAllReposReturned"
            /\ retryCount' = rc
            /\ reqLog' = Append(reqLog, Request(page, status, <<>>, 0))
            /\ UNCHANGED exitCode
       ELSE /\ reqLog' = Append(reqLog, Request(page, status, <<>>, LinearBackoff(rc)))
            \* line 16: the inner loop ends when the count is used up, and the
            \* outer loop starts it again at 0
            /\ retryCount' = IF rc < maxRetries THEN rc ELSE 0
            /\ UNCHANGED <<pc, exitCode>>
  /\ UNCHANGED <<fs, args, summaryPrinted, idx, result,
                 totalSuccessfulRepos, totalFailedRepos,
                 totalSuccessfulBranches, totalFailedBranches,
                 repos, page, fbVars, crVars, cbVars, netUsed, slept>>
  /\ UNCHANGED <<histVars, repoExisted>>

\* main, lines 270-284: fetchAllRepos has returned (its locals are gone)
MainAfterFetch ==
  /\ pc = "fetchAllReposReturned"
  /\ reqLog' = <<>>
  /\ IF Len(repos) = 0
     THEN /\ pc' = "done"
          /\ exitCode' = 0
     ELSE /\ pc' = "loop"
          /\ UNCHANGED exitCode
  /\ idx' = 1
  /\ totalSuccessfulRepos' = 0 /\ totalFailedRepos' = 0
  /\ totalSuccessfulBranches' = 0 /\ totalFailedBranches' = 0
  /\ page' = 1 /\ retryCount' = 0
  /\ UNCHANGED <<fs, args, summaryPrinted, result, repos,
                 fbVars, crVars, cbVars, netUsed, slept>>
  /\ UNCHANGED <<histVars, repoExisted>>

\* a run that prints its summary in branch mode only
MainSummaryBranchModeOnly ==
  /\ pc = "loop"
  /\ idx > Len(repos)
  /\ summaryPrinted' = fetchBranchesOption
  /\ pc' = "done"
  /\ exitCode' = 0
  /\ UNCHANGED <<fs, args, idx, result,
                 totalSuccessfulRepos, totalFailedRepos,
                 totalSuccessfulBranches, totalFailedBranches,
                 farVars, fbVars, crVars, cbVars, netUsed, slept>>
  /\ UNCHANGED <<histVars, repoExisted>>

\* main, lines 286 and 307-313: the loop is over, print the summary
MainSummary ==
  /\ pc = "loop"
  /\ idx > Len(repos)
  /\ summaryPrinted' = TRUE
  /\ pc' = "done"
  /\ exitCode' = 0
  /\ UNCHANGED <<fs, args, idx, result,
                 totalSuccessfulRepos, totalFailedRepos,
                 totalSuccessfulBranches, totalFailedBranches,
                 farVars, fbVars, crVars, cbVars, netUsed, slept>>
  /\ UNCHANGED <<histVars, repoExisted>>

\* the locals of a call that has returned and whose result was used
ResetBranchList == branches' = <<>> /\ brRetryCount' = 0 /\ brLog' = <<>>

ResetCloneRepo ==
  /\ bIdx' = 1 /\ successfulBranches' = 0 /\ failedBranches' = 0
  /\ branchesListed' = FALSE /\ repoCloneTried' = FALSE

ResetCall ==
  /\ branch' = <<>> /\ branchPath' = <<>> /\ attempt' = 1 /\ success' = FALSE
  /\ opLog' = <<>> /\ pathExisted' = FALSE /\ fsAtCall' = EmptyTree

\* a loop that a failed repository ends
MainFoldBreak ==
  /\ pc \in {"cloneRepoReturned", "cloneRootRepoReturned"}
  /\ IF fetchBranchesOption /\ result.success
     THEN /\ totalSuccessfulBranches' = totalSuccessfulBranches + result.successfulBranches
          /\ totalFailedBranches' = totalFailedBranches + result.failedBranches
     ELSE UNCHANGED <<totalSuccessfulBranches, totalFailedBranches>>
  /\ IF result.success
     THEN /\ totalSuccessfulRepos' = totalSuccessfulRepos + 1
          /\ UNCHANGED totalFailedRepos
     ELSE /\ totalFailedRepos' = totalFailedRepos + 1
          /\ UNCHANGED totalSuccessfulRepos
  /\ slept' = 1000
  /\ idx' = IF result.success THEN idx + 1 ELSE Len(repos) + 1
  /\ pc' = "loop"
  /\ result' = NoResult
  /\ ResetBranchList /\ ResetCloneRepo /\ ResetCall
  /\ UNCHANGED <<fs, args, exitCode, summaryPrinted, farVars, netUsed>>
  /\ IF fetchBranchesOption
     THEN /\ sumSuccessfulBranches' = sumSuccessfulBranches + result.successfulBranches
          /\ sumFailedBranches' = sumFailedBranches + result.failedBranches
     ELSE UNCHANGED <<sumSuccessfulBranches, sumFailedBranches>>
  /\ repoExisted' = FALSE
  /\ UNCHANGED processed

\* main, lines 298-304: count the repository, wait, next repository
MainFold ==
  /\ pc \in {"cloneRepoReturned", "cloneRootRepoReturned"}
  /\ IF fetchBranchesOption /\ result.success
     THEN /\ totalSuccessfulBranches' = totalSuccessfulBranches + result.successfulBranches
          /\ totalFailedBranches' = totalFailedBranches + result.failedBranches
     ELSE UNCHANGED <<totalSuccessfulBranches, totalFailedBranches>>
  /\ IF result.success
     THEN /\ totalSuccessfulRepos' = totalSuccessfulRepos + 1
          /\ UNCHANGED totalFailedRepos
     ELSE /\ totalFailedRepos' = totalFailedRepos + 1
          /\ UNCHANGED totalSuccessfulRepos
  /\ slept' = 1000
  /\ idx' = idx + 1
  /\ pc' = "loop"
  /\ result' = NoResult
  /\ ResetBranchList /\ ResetCloneRepo /\ ResetCall
  /\ UNCHANGED <<fs, args, exitCode, summaryPrinted, farVars, netUsed>>
  /\ IF fetchBranchesOption
     THEN /\ sumSuccessfulBranches' = sumSuccessfulBranches + result.successfulBranches
          /\ sumFailedBranches' = sumFailedBranches + result.failedBranches
     ELSE UNCHANGED <<sumSuccessfulBranches, sumFailedBranches>>
  /\ repoExisted' = FALSE
  /\ UNCHANGED processed

\* ---------------------------------------------------------- fetchBranches
\* a branch listing that takes 429 for the rate-limit status
BranchesRateLimitedAs429(status) == status = 429

\* line 64: error.response?.status === 403
BranchesRateLimited(status) == status = 403

\* line 68: retryCount === maxRetries
BranchesRetriesExhausted(rc) == rc = maxRetries

\* line 61: response.data.map((branch) => branch.name)
branchNamesOf(data) == [i \in DOMAIN data |-> data[i].name]

BranchRequest(status, data, wait) == [status |-> status, data |-> data, wait |-> wait]

\* lines 57-61: the request succeeds
FetchBranchesOk ==
  /\ pc = "fetchBranches"
  /\ \E list \in BranchLists :
       LET data == [i \in DOMAIN list |-> [name |-> list[i]]] IN
       /\ branches' = branchNamesOf(data)
       /\ brLog' = Append(brLog, BranchRequest(200, data, 0))
  /\ pc' = "fetchBranchesReturned"
  /\ netUsed' = TRUE
  /\ UNCHANGED <<fs, mainVars, farVars, brRetryCount, crVars, cbVars, slept>>
  /\ UNCHANGED <<histVars, repoExisted>>

\* lines 62-77: the request fails
FetchBranchesFail ==
  /\ pc = "fetchBranches"
  /\ \E status \in ErrorStatuses :
       LET rc == brRetryCount + 1 IN
       /\ brRetryCount' = rc
       /\ IF BranchesRateLimited(status) \/ BranchesRetriesExhausted(rc)
          THEN /\ branches' = <<>>
               /\ brLog' = Append(brLog, BranchRequest(status, <<>>, 0))
               /\ pc' = "fetchBranchesReturned"
          ELSE /\ brLog' = Append(brLog, BranchRequest(status, <<>>, LinearBackoff(rc)))
               \* lines 55 and 79: the loop ends when the count is used up
               /\ IF rc < maxRetries
                  THEN UNCHANGED <<pc, branches>>
                  ELSE pc' = "fetchBranchesReturned" /\ branches' = <<>>
  /\ netUsed' = TRUE
  /\ UNCHANGED <<fs, mainVars, farVars, crVars, cbVars, slept>>
  /\ UNCHANGED <<histVars, repoExisted>>

\* -------------------------------------------------------------- cloneRepo
\* the result of line 214 returned at line 178 as well
FailedResultOne(failed) ==
  [success |-> FALSE, successfulBranches |-> 0, failedBranches |-> 1]

\* lines 178 and 214: the result of a repository that was not cloned
FailedResult(failed) ==
  [success |-> FALSE, successfulBranches |-> 0, failedBranches |-> failed]

\* line 164 / 219: path.join(outputDir, repo.name)
repoPathOf(repo) == pathJoin(<<>>, repo.name)

\* lines 163-173: called for repos[idx]; create the repository directory and
\* call fetchBranches.  A mkdirSync that throws reaches the catch of line 212.
CloneRepoStart ==
  /\ pc = "loop"
  /\ idx <= Len(repos)
  /\ fetchBranchesOption
  /\ \E mkdirOk \in BOOLEAN :
       LET repoPath == repoPathOf(repos[idx]) IN
       IF existsSync(fs, repoPath) \/ mkdirOk
       THEN /\ fs' = mkdirSync(fs, repoPath)
            /\ pc' = "fetchBranches"
            /\ UNCHANGED result
       ELSE /\ result' = FailedResult(1)
            /\ pc' = "cloneRepoReturned"
            /\ UNCHANGED fs
  /\ branches' = <<>> /\ brRetryCount' = 0 /\ brLog' = <<>>
  /\ bIdx' = 1 /\ successfulBranches' = 0 /\ failedBranches' = 0
  /\ branchesListed' = FALSE /\ repoCloneTried' = FALSE
  /\ UNCHANGED <<args, exitCode, summaryPrinted, idx,
                 totalSuccessfulRepos, totalFailedRepos,
                 totalSuccessfulBranches, totalFailedBranches,
                 farVars, cbVars, netUsed, slept>>
  /\ processed' = Append(processed, repos[idx].name)
  /\ repoExisted' = existsSync(fs, repoPathOf(repos[idx]))
  /\ UNCHANGED <<sumSuccessfulBranches, sumFailedBranches>>

\* lines 174-182: fetchBranches has returned (its locals are gone)
CloneRepoBranches ==
  /\ pc = "fetchBranchesReturned"
  /\ IF Len(branches) = 0
     THEN /\ result' = FailedResult(0)
          /\ pc' = "cloneRepoReturned"
     ELSE /\ pc' = "branchLoop"
          /\ UNCHANGED result
  /\ bIdx' = 1 /\ successfulBranches' = 0 /\ failedBranches' = 0
  /\ branchesListed' = TRUE
  /\ brRetryCount' = 0 /\ brLog' = <<>>
  /\ UNCHANGED <<fs, args, exitCode, summaryPrinted, idx,
                 totalSuccessfulRepos, totalFailedRepos,
                 totalSuccessfulBranches, totalFailedBranches,
                 farVars, branches, repoCloneTried, cbVars, netUsed, slept>>
  /\ UNCHANGED <<histVars, repoExisted>>

\* line 185: branch.replace("/", "-")
branchDirNameOf(b) == replace(b, "/", "-")

\* lines 184-188: next branch, call cloneBranch
CloneRepoNextBranch ==
  /\ pc = "branchLoop"
  /\ bIdx <= Len(branches)
  /\ LET repoPath == repoPathOf(repos[idx])
         path == pathJoin(repoPath, branchDirNameOf(branches[bIdx]))
     IN /\ branch' = branches[bIdx]
        /\ branchPath' = path
        /\ pathExisted' = existsSync(fs, path)
  /\ attempt' = 1
  /\ opLog' = <<>>
  /\ fsAtCall' = fs
  /\ pc' = "cloneBranch"
  /\ UNCHANGED <<fs, mainVars, farVars, fbVars, crVars, success, netUsed, slept>>
  /\ UNCHANGED <<histVars, repoExisted>>

\* lines 189-195: cloneBranch has returned; count, wait 500 ms
CloneRepoCount ==
  /\ pc = "cloneBranchReturned"
  /\ IF success
     THEN /\ successfulBranches' = successfulBranches + 1
          /\ UNCHANGED failedBranches
     ELSE /\ failedBranches' = failedBranches + 1
          /\ UNCHANGED successfulBranches
  /\ slept' = 500
  /\ bIdx' = bIdx + 1
  /\ pc' = "branchLoop"
  /\ ResetCall
  /\ UNCHANGED <<fs, mainVars, farVars, fbVars, branchesListed, repoCloneTried, netUsed>>
  /\ UNCHANGED <<histVars, repoExisted>>

\* a summary that removes the directory of a repository with a cloned branch
NoBranchClonedInverted(sb) == sb > 0

\* line 202: successfulBranches === 0
NoBranchCloned(sb) == sb = 0

\* lines 198-211: the branches are done; remove the directory of a
\* repository none of whose branches was cloned, return the counts
CloneRepoSummary ==
  /\ pc = "branchLoop"
  /\ bIdx > Len(branches)
  /\ fs' = IF NoBranchCloned(successfulBranches)
           THEN rmSync(fs, repoPathOf(repos[idx])) ELSE fs
  /\ result' = [success |-> successfulBranches > 0,
                successfulBranches |-> successfulBranches,
                failedBranches |-> failedBranches]
  /\ pc' = "cloneRepoReturned"
  /\ UNCHANGED <<args, exitCode, summaryPrinted, idx,
                 totalSuccessfulRepos, totalFailedRepos,
                 totalSuccessfulBranches, totalFailedBranches,
                 farVars, fbVars, crVars, cbVars, netUsed, slept>>
  /\ UNCHANGED <<histVars, repoExisted>>

\* ------------------------------------------------------------ cloneBranch
\* What git.clone and the submodule step can do.  A clone that throws may
\* leave a partial directory; a clone that succeeds leaves .git and the
\* tracked files, if the branch has any.
SubmoduleOutcomes == {"ok", "no submodule mapping found", "other error"}

CloneOutcomes ==
  [ok : {FALSE}, partial : BOOLEAN, entries : {{}}, submodule : {"none"}]
  \cup [ok : {TRUE}, partial : {FALSE}, entries : {{".git"}}, submodule : {"none"}]
  \cup [ok : {TRUE}, partial : {FALSE}, entries : {{".git", "README"}},
        submodule : SubmoduleOutcomes]

Op(op, ok, entries, ms) == [op |-> op, ok |-> ok, entries |-> entries, ms |-> ms]

\* the tree after git.clone(url, path, ...) with outcome o
AfterClone(f, path, o) ==
  IF o.ok THEN WritePath(f, path, Cloned(o.entries))
  ELSE IF o.partial THEN WritePath(f, path, Partial)
  ELSE f

\* an emptiness check that counts .git as content
IsEmptyCloneCountingGit(entries) == Cardinality(entries) = 0

\* lines 106-110: readdirSync(branchPath).filter((item) => item !== ".git").length === 0
IsEmptyClone(entries) == Cardinality({item \in entries : item # ".git"}) = 0

\* a backoff with the exponent off by one
BackoffDelayDoubled(a) == (2 ^ a) * 500

\* line 152: Math.pow(2, attempt - 1) * 500
BackoffDelay(a) == (2 ^ (a - 1)) * 500

\* an existence check with its two branches swapped: an existing path fails
CloneBranchExistsFails ==
  /\ pc = "cloneBranch"
  /\ attempt <= retries
  /\ existsSync(fs, branchPath)
  /\ success' = FALSE
  /\ pc' = "cloneBranchReturned"
  /\ UNCHANGED <<fs, mainVars, farVars, fbVars, crVars,
                 branch, branchPath, attempt, opLog, pathExisted, fsAtCall,
                 netUsed, slept>>
  /\ UNCHANGED <<histVars, repoExisted>>

\* lines 137-141: the target path exists, nothing is cloned
CloneBranchExists ==
  /\ pc = "cloneBranch"
  /\ attempt <= retries
  /\ existsSync(fs, branchPath)
  /\ success' = TRUE
  /\ pc' = "cloneBranchReturned"
  /\ UNCHANGED <<fs, mainVars, farVars, fbVars, crVars,
                 branch, branchPath, attempt, opLog, pathExisted, fsAtCall,
                 netUsed, slept>>
  /\ UNCHANGED <<histVars, repoExisted>>

\* lines 89-136 and 143-158: one attempt of the loop with the target path absent
CloneBranchAttempt ==
  /\ pc = "cloneBranch"
  /\ attempt <= retries
  /\ ~existsSync(fs, branchPath)
  /\ \E o \in CloneOutcomes :
       LET cloned == AfterClone(fs, branchPath, o)
           cloneOp == Op("clone", o.ok, o.entries, 0)
       IN
       IF o.ok
       THEN IF IsEmptyClone(cloned[branchPath].entries)
            THEN /\ fs' = rmSync(cloned, branchPath)
                 /\ opLog' = Append(opLog, cloneOp)
                 /\ success' = FALSE
                 /\ pc' = "cloneBranchReturned"
                 /\ UNCHANGED attempt
            ELSE /\ fs' = cloned
                 /\ opLog' = opLog \o <<cloneOp, Op("submodule", o.submodule = "ok", {}, 0)>>
                 /\ success' = TRUE
                 /\ pc' = "cloneBranchReturned"
                 /\ UNCHANGED attempt
       ELSE /\ fs' = IF existsSync(cloned, branchPath)
                     THEN rmSync(cloned, branchPath) ELSE cloned
            /\ IF attempt < retries
               THEN /\ opLog' = opLog \o <<cloneOp, Op("delay", TRUE, {}, BackoffDelay(attempt))>>
                    /\ attempt' = attempt + 1
                    /\ UNCHANGED <<pc, success>>
               ELSE /\ opLog' = Append(opLog, cloneOp)
                    /\ success' = FALSE
                    /\ pc' = "cloneBranchReturned"
                    /\ UNCHANGED attempt
  /\ repoCloneTried' = TRUE
  /\ netUsed' = TRUE
  /\ UNCHANGED <<mainVars, farVars, fbVars, bIdx, successfulBranches, failedBranches,
                 branchesListed, branch, branchPath, pathExisted, fsAtCall, slept>>
  /\ UNCHANGED <<histVars, repoExisted>>

\* ---------------------------------------------------------- cloneRootRepo
\* a catch that removes the target directory, as cloneBranch does
RootAfterFailureCleanup(f, p) == rmSync(f, p)

\* lines 237-240: the catch reports the failure and leaves the tree as it is
RootAfterFailure(f, p) == f

RootCloneOutcomes == {o \in CloneOutcomes : o.submodule \in {"none", "ok"}}

\* lines 218-241: called for repos[idx].  The directory is created when it is
\* missing and git.clone is called on it in every case; git refuses a
\* directory that is not empty.  Every error reaches the catch of line 237.
CloneRootRepo ==
  /\ pc = "loop"
  /\ idx <= Len(repos)
  /\ ~fetchBranchesOption
  /\ \E mkdirOk \in BOOLEAN, o \in RootCloneOutcomes :
       LET repoPath == repoPathOf(repos[idx])
           made == mkdirSync(fs, repoPath)
       IN
       /\ branchPath' = repoPath
       /\ pathExisted' = existsSync(fs, repoPath)
       /\ IF ~existsSync(fs, repoPath) /\ ~mkdirOk
          THEN /\ fs' = RootAfterFailure(fs, repoPath)
               /\ opLog' = <<>>
               /\ result' = [success |-> FALSE]
               /\ UNCHANGED netUsed
          ELSE /\ netUsed' = TRUE
               /\ IF IsEmptyDir(made, repoPath)
                  THEN /\ fs' = IF o.ok THEN AfterClone(made, repoPath, o)
                                 ELSE RootAfterFailure(AfterClone(made, repoPath, o), repoPath)
                       /\ opLog' = <<Op("clone", o.ok, o.entries, 0)>>
                       /\ result' = [success |-> o.ok]
                  ELSE /\ fs' = RootAfterFailure(made, repoPath)
                       /\ opLog' = <<Op("clone", FALSE, {}, 0)>>
                       /\ result' = [success |-> FALSE]
  /\ fsAtCall' = fs
  /\ pc' = "cloneRootRepoReturned"
  /\ UNCHANGED <<args, exitCode, summaryPrinted, idx,
                 totalSuccessfulRepos, totalFailedRepos,
                 totalSuccessfulBranches, totalFailedBranches,
                 farVars, fbVars, crVars, branch, attempt, success, slept>>
  /\ processed' = Append(processed, repos[idx].name)
  /\ UNCHANGED <<sumSuccessfulBranches, sumFailedBranches, repoExisted>>

\* ---------------------------------------------------------- specification
Next ==
  \/ MainNoUsername
  \/ MainStart
  \/ FetchPageOk
  \/ FetchPageFail
  \/ MainAfterFetch
  \/ CloneRepoStart
  \/ FetchBranchesOk
  \/ FetchBranchesFail
  \/ CloneRepoBranches
  \/ CloneRepoNextBranch
  \/ CloneBranchExists
  \/ CloneBranchAttempt
  \/ CloneRepoCount
  \/ CloneRepoSummary
  \/ CloneRootRepo
  \/ MainFold
  \/ MainSummary

Spec == Init /\ [][Next]_vars

\* ------------------------------------------------------------ properties
Last(log) == log[Len(log)]

RequestsOfPage(p) == {i \in DOMAIN reqLog : reqLog[i].page = p}

\* C1: the sequence fetchAllRepos returns holds no repository with fork = true.
C1_NoForkReturned ==
  pc = "fetchAllReposReturned" => \A i \in DOMAIN repos : ~repos[i].fork

\* C2: pages are requested in the order 1, 2, 3, ... (a failed request is
\* repeated for the same page, a successful one is followed by the next
\* page), the accumulated result is the page contents concatenated in page
\* order, and an empty page is the last request: no page is requested after it.
C2_PagesInOrder ==
  /\ [](pc \in {"fetchAllRepos", "fetchAllReposReturned", "exit"} =>
          /\ reqLog # <<>> => reqLog[1].page = 1
          /\ \A i \in 1..(Len(reqLog) - 1) :
               reqLog[i + 1].page =
                 reqLog[i].page + (IF reqLog[i].status = 200 THEN 1 ELSE 0)
          /\ repos = Flatten(SelectOk(reqLog))
          /\ \A i \in DOMAIN reqLog :
               (reqLog[i].status = 200 /\ reqLog[i].data = <<>>) =>
                 (i = Len(reqLog) /\ pc # "fetchAllRepos"))
  /\ [][pc \notin {"main", "fetchAllRepos"} => pc' # "fetchAllRepos"]_vars

C2_Witness ==
  /\ pc = "fetchAllReposReturned"
  /\ Len(SelectOk(reqLog)) = 3
  /\ Len(reqLog) > 3
  /\ Len(repos) = 2

\* C3: a 403 answer to a page request, on any page and any attempt, is the
\* last request of the run: the process has exited with code 1 and no branch
\* listing and no clone was attempted.
C3_RateLimitFatal ==
  \A i \in DOMAIN reqLog :
    reqLog[i].status = 403 =>
      /\ i = Len(reqLog)
      /\ pc = "exit"
      /\ exitCode = 1
      /\ ~netUsed

C3_Witness ==
  /\ reqLog # <<>>
  /\ Last(reqLog).status = 403
  /\ Last(reqLog).page = 2
  /\ Cardinality(RequestsOfPage(2)) = 3

\* C4: no page is requested more than 3 times; when fetchAllRepos returns
\* after a failed request, that page has failed 3 times (the count started
\* again for it), it is the last page requested, the process has not exited,
\* and the value returned is what the earlier pages gave.
C4_BoundedPageRetries ==
  /\ \A p \in 1..(MaxRepos + 1) : Cardinality(RequestsOfPage(p)) <= 3
  /\ (pc = "fetchAllReposReturned" /\ Last(reqLog).status # 200) =>
       /\ Cardinality(RequestsOfPage(Last(reqLog).page)) = 3
       /\ \A i \in RequestsOfPage(Last(reqLog).page) : reqLog[i].status \notin {200, 403}
       /\ \A i \in DOMAIN reqLog : reqLog[i].page <= Last(reqLog).page
       /\ repos = Flatten(SelectOk(reqLog))
       /\ exitCode = -1

C4_Witness ==
  /\ pc = "fetchAllReposReturned"
  /\ Len(reqLog) = 6
  /\ Last(reqLog).status = 404
  /\ Last(reqLog).page = 2
  /\ Len(repos) > 0

\* C5: fetchBranches issues at most 3 requests; a successful answer or a 403
\* is its last request; it returns the names of the successful answer, and
\* the empty sequence otherwise; the process is not terminated by it.
C5_BranchListerTotal ==
  /\ Len(brLog) <= 3
  /\ \A i \in 1..(Len(brLog) - 1) : brLog[i].status \notin {200, 403}
  /\ brLog # <<>> => exitCode = -1
  /\ pc = "fetchBranchesReturned" =>
       /\ brLog # <<>>
       /\ IF Last(brLog).status = 200
          THEN /\ Len(branches) = Len(Last(brLog).data)
               /\ \A i \in DOMAIN branches : branches[i] = Last(brLog).data[i].name
          ELSE branches = <<>>

C5_Witness ==
  /\ pc = "fetchBranchesReturned"
  /\ Len(brLog) = 2
  /\ Last(brLog).status = 403

\* C6: a cloneBranch call whose target path exists when it is called issues
\* no git operation, leaves the tree as it was, and returns success.
C6_ExistingPathSkipped ==
  (pc = "cloneBranchReturned" /\ pathExisted) =>
    /\ opLog = <<>>
    /\ fs = fsAtCall
    /\ success = TRUE

C6_Witness ==
  /\ pc = "cloneBranchReturned"
  /\ pathExisted
  /\ existsSync(fs, branchPath)

\* C7: when the clone of cloneBranch succeeds and leaves nothing but .git,
\* the directory is deleted and cloneBranch returns failure.
C7_EmptyCloneDeleted ==
  (/\ pc = "cloneBranchReturned"
   /\ \E i \in DOMAIN opLog :
        opLog[i].op = "clone" /\ opLog[i].ok /\ opLog[i].entries \subseteq {".git"}) =>
    /\ ~existsSync(fs, branchPath)
    /\ success = FALSE

C7_Witness ==
  /\ pc = "cloneBranchReturned"
  /\ Len(opLog) > 1
  /\ Last(opLog).op = "clone"
  /\ Last(opLog).ok
  /\ Last(opLog).entries = {".git"}

\* C8: cloneRootRepo issues no clone when its target path exists at the call.
C8_RootSkipsExisting ==
  (pc = "cloneRootRepoReturned" /\ pathExisted) => opLog = <<>>

AllBranchesFailed ==
  /\ pc = "cloneRepoReturned"
  /\ branchesListed
  /\ Len(branches) >= 1
  /\ failedBranches = Len(branches)

\* C9: in branch mode, when a repository has at least one branch and every
\* branch failed to clone, the repository's directory is gone when cloneRepo
\* returns, and main adds the repository to the failed total only.
C9_AllBranchesFailed ==
  /\ [](AllBranchesFailed =>
          /\ ~existsSync(fs, repoPathOf(repos[idx]))
          /\ ~result.success)
  /\ [][AllBranchesFailed =>
          /\ totalFailedRepos' = totalFailedRepos + 1
          /\ totalSuccessfulRepos' = totalSuccessfulRepos]_vars

C9_Witness ==
  /\ AllBranchesFailed
  /\ Len(branches) = 2

NoBranchesListed ==
  /\ pc = "cloneRepoReturned"
  /\ branchesListed
  /\ Len(branches) = 0

\* C10: in branch mode, when fetchBranches returns no branch, no clone is
\* attempted for the repository, cloneRepo returns success = false with 0
\* successful and 0 failed branches, and main adds 1 to the failed total.
C10_NoBranches ==
  /\ [](NoBranchesListed =>
          /\ ~repoCloneTried
          /\ result = [success |-> FALSE, successfulBranches |-> 0, failedBranches |-> 0])
  /\ [][NoBranchesListed =>
          /\ totalFailedRepos' = totalFailedRepos + 1
          /\ totalSuccessfulRepos' = totalSuccessfulRepos]_vars

C10_Witness ==
  /\ NoBranchesListed
  /\ totalFailedRepos = 1

\* ------------------------------------------------- claims C11 to C20
\* the branch name with every slash replaced by a hyphen
AllSlashesReplaced(b) == [i \in DOMAIN b |-> IF b[i] = "/" THEN "-" ELSE b[i]]

\* C11: the directory segment cloneRepo uses for a branch is the branch name
\* with every slash replaced by a hyphen: it holds no slash, and the branch
\* path is that one segment directly under the repository directory.
C11_EverySlashReplaced ==
  pc \in {"cloneBranch", "cloneBranchReturned"} =>
    /\ \A i \in DOMAIN branchDirNameOf(branch) : branchDirNameOf(branch)[i] # "/"
    /\ branchPath = Append(repoPathOf(repos[idx]), AllSlashesReplaced(branch))

\* C12 as stated: every run that ends with exit code 0, the zero-repository
\* run included, has printed the final summary.
C12_SummaryAlways ==
  (pc = "done" /\ exitCode = 0) => summaryPrinted

\* C12: a run ends with exit code 0 only by returning from main, and it has
\* printed the final summary exactly when the listing returned at least one
\* repository; the zero-repository run ends with code 0 and no summary.
C12_SummaryIffRepos ==
  /\ exitCode = 0 => pc = "done"
  /\ pc = "done" => /\ exitCode = 0
                     /\ summaryPrinted <=> Len(repos) > 0
  /\ summaryPrinted => pc = "done"

C12_Witness ==
  pc = "done" /\ exitCode = 0 /\ summaryPrinted /\ Len(repos) = MaxRepos

InLoop ==
  pc \in {"loop", "fetchBranches", "fetchBranchesReturned", "branchLoop",
          "cloneBranch", "cloneBranchReturned", "cloneRepoReturned",
          "cloneRootRepoReturned"}

NamesOf(rs) == [i \in DOMAIN rs |-> rs[i].name]

\* C13: with n >= 1 repositories listed, the repositories are processed once
\* each in listing order: while the loop runs the processed ones are the
\* first repositories of the listing and no failure has ended the run, and
\* at the summary all n are processed and successes + failures = n.
C13_EachRepoOnce ==
  /\ InLoop =>
       /\ exitCode = -1
       /\ Len(processed) <= Len(repos)
       /\ processed = SubSeq(NamesOf(repos), 1, Len(processed))
       /\ Len(processed) = IF pc = "loop" THEN idx - 1 ELSE idx
       /\ totalSuccessfulRepos + totalFailedRepos = idx - 1
  /\ (pc = "done" /\ summaryPrinted) =>
       /\ Len(repos) >= 1
       /\ processed = NamesOf(repos)
       /\ totalSuccessfulRepos + totalFailedRepos = Len(repos)

C13_Witness ==
  /\ pc = "done" /\ summaryPrinted
  /\ Len(repos) = MaxRepos
  /\ totalFailedRepos >= 1
  /\ totalSuccessfulRepos >= 1

\* C14: in branch mode, at the final summary the branch totals are the sums
\* of successfulBranches and of failedBranches over the results of all the
\* repositories processed.
C14_TotalsAreSums ==
  (pc = "done" /\ summaryPrinted /\ fetchBranchesOption) =>
    /\ totalSuccessfulBranches = sumSuccessfulBranches
    /\ totalFailedBranches = sumFailedBranches

CloneOps == {i \in DOMAIN opLog : opLog[i].op = "clone"}

DelayOps == {i \in DOMAIN opLog : opLog[i].op = "delay"}

AllAttemptsFailed ==
  /\ pc = "cloneBranchReturned"
  /\ Cardinality(CloneOps) = retries
  /\ \A i \in CloneOps : ~opLog[i].ok

\* the part of C15 before its last clause
C15_Attempts ==
  pc \in {"cloneBranch", "cloneBranchReturned"} =>
    /\ Cardinality(CloneOps) <= 3
    /\ \A i \in CloneOps :
         i > 1 => /\ opLog[i - 1].op = "delay"
                  /\ opLog[i - 2].op = "clone"
                  /\ ~opLog[i - 2].ok
    /\ \A i \in DelayOps :
         /\ i > 1
         /\ opLog[i - 1].op = "clone"
         /\ opLog[i].ms = 500 * (2 ^ (Cardinality({j \in CloneOps : j < i}) - 1))
         /\ opLog[i].ms \in {500, 1000}
    /\ (pc = "cloneBranch" /\ attempt > 1) =>
         /\ ~existsSync(fs, branchPath)
         /\ Last(opLog).op = "delay"
         /\ Cardinality(CloneOps) = attempt - 1

\* C15 as stated: at most 3 attempts, each further one after an error, a
\* removal and a wait of 500ms * 2^(k-1); when the last attempt fails the
\* function returns failure after one more backoff delay.
C15_DelayBeforeFailure ==
  /\ C15_Attempts
  /\ AllAttemptsFailed => /\ ~success
                          /\ Last(opLog).op = "delay"

\* C15: at most 3 attempts, each further one after an error, a removal and a
\* wait of 500ms * 2^(k-1); when the last attempt fails the function returns
\* failure at once: the failed clone is its last operation and the waits of
\* the call are the 500ms and the 1000ms between the attempts.
C15_BoundedBackoff ==
  /\ C15_Attempts
  /\ AllAttemptsFailed => /\ ~success
                          /\ ~existsSync(fs, branchPath)
                          /\ Last(opLog).op = "clone"
                          /\ Cardinality(DelayOps) = retries - 1

C15_Witness == AllAttemptsFailed /\ Len(opLog) = 5

\* C16: cloneRootRepo calls git.clone at most once; when the clone or the
\* directory creation fails it returns success = false, the run goes on, and
\* everything that was on disk at the call is still there unchanged (only a
\* target directory that was empty can have received a partial clone).
C16_RootFailureLeavesTree ==
  pc = "cloneRootRepoReturned" =>
    /\ Len(opLog) <= 1
    /\ \A i \in DOMAIN opLog : opLog[i].op = "clone"
    /\ result.success => (opLog # <<>> /\ opLog[1].ok)
    /\ ~result.success =>
         /\ exitCode = -1
         /\ \A q \in DOMAIN fsAtCall :
              /\ q \in DOMAIN fs
              /\ \/ fs[q] = fsAtCall[q]
                 \/ q = branchPath /\ IsEmptyDir(fsAtCall, q)

C16_Witness ==
  /\ pc = "cloneRootRepoReturned"
  /\ ~result.success
  /\ pathExisted
  /\ opLog # <<>>
  /\ \E q \in DOMAIN fsAtCall : IsPrefix(branchPath, q) /\ q # branchPath

\* the steps one branch can take: the attempts, the return, the count
BranchCost == retries + 2

\* the steps one repository can take
RepoCost == maxRetries + MaxBranches * BranchCost + 4

ListedCost == MaxRepos * RepoCost + 2

\* a bound on the number of steps the run can still take
Rank ==
  CASE pc = "main" ->
         ListedCost + (MaxRepos + 1) * maxRetries + 1
    [] pc = "fetchAllRepos" ->
         ListedCost + (MaxRepos + 1 - page) * maxRetries + (maxRetries - retryCount)
    [] pc = "fetchAllReposReturned" -> ListedCost
    [] pc = "loop" -> (Len(repos) - idx + 1) * RepoCost + 1
    [] pc = "fetchBranches" ->
         (Len(repos) - idx) * RepoCost + 1
           + (maxRetries - brRetryCount) + MaxBranches * BranchCost + 3
    [] pc = "fetchBranchesReturned" ->
         (Len(repos) - idx) * RepoCost + 1 + Len(branches) * BranchCost + 3
    [] pc = "branchLoop" ->
         (Len(repos) - idx) * RepoCost + 1
           + (Len(branches) - bIdx + 1) * BranchCost + 2
    [] pc = "cloneBranch" ->
         (Len(repos) - idx) * RepoCost + 1
           + (Len(branches) - bIdx) * BranchCost + (retries - attempt + 1) + 3
    [] pc = "cloneBranchReturned" ->
         (Len(repos) - idx) * RepoCost + 1
           + (Len(branches) - bIdx) * BranchCost + 3
    [] pc \in {"cloneRepoReturned", "cloneRootRepoReturned"} ->
         (Len(repos) - idx) * RepoCost + 2
    [] OTHER -> 0

\* C17: every run terminates.  No state but the two final ones (process exit,
\* return from main) is without a next step, and every step lowers a rank
\* that is never negative: no retry loop can repeat forever.
C17_Terminates ==
  /\ [](pc \in {"done", "exit"} \/ ENABLED Next)
  /\ [](Rank >= 0)
  /\ [][Rank' < Rank]_vars

C17_Witness ==
  /\ pc = "done" /\ summaryPrinted /\ fetchBranchesOption
  /\ Len(repos) = MaxRepos
  /\ totalFailedRepos >= 1
  /\ Rank = 0

\* C18: in branch mode, when cloneRepo has returned, the repository
\* directory exists exactly when the result has success = true.
C18_DirIffSuccess ==
  pc = "cloneRepoReturned" =>
    (existsSync(fs, repoPathOf(repos[idx])) <=> result.success)

\* C19: when cloneBranch returns, it returns true exactly when the target
\* path exists; a call that reached the submodule step returns true
\* whatever that step did.
C19_TrueIffPathExists ==
  pc = "cloneBranchReturned" =>
    /\ success <=> existsSync(fs, branchPath)
    /\ (\E i \in DOMAIN opLog : opLog[i].op = "submodule") => success

C19_Witness ==
  /\ pc = "cloneBranchReturned"
  /\ opLog # <<>>
  /\ Last(opLog).op = "submodule"
  /\ ~Last(opLog).ok
  /\ success
  /\ existsSync(fs, branchPath)

\* the branch clones under the directory of the repository being processed
BranchDirs ==
  {q \in DOMAIN fs : /\ IsPrefix(repoPathOf(repos[idx]), q)
                     /\ q # repoPathOf(repos[idx])
                     /\ fs[q].kind = "clone"}

\* C20: when cloneRepo started with no directory for the repository, a
\* branch is counted successful only for a clone of its own (its target
\* path did not exist when cloneBranch was called), and at return the
\* number of branch directories equals successfulBranches.
C20_OwnDirectory ==
  /\ (pc = "cloneBranchReturned" /\ ~repoExisted /\ success) => ~pathExisted
  /\ (pc = "cloneRepoReturned" /\ ~repoExisted /\ branchesListed) =>
       Cardinality(BranchDirs) = result.successfulBranches

====
